---- MODULE Spec2Model ----
(***************************************************************************)
(* Model of shiny/driver/x11driver/window.go: one windowImpl, the caller   *)
(* goroutines that invoke its methods, the X11 connection (requests in     *)
(* flight, the server processing them in order) and the screenImpl.run     *)
(* goroutine that hands X11 notifications to the handle* methods.          *)
(***************************************************************************)
EXTENDS Integers, Sequences, FiniteSets, TLC

\* ------------------------------------------------------------------ bounds
NThreads == 2
MaxCalls == 2
MaxNotifs == 3
MaxSteps == 2

Threads == 1..NThreads
NoThread == 0

\* ------------------------------------------------------- native handles
\* windowImpl.xw, xg and xp.
Handles == {"xw", "xg", "xp"}

VARIABLES
    released,   \* windowImpl.released
    mu,         \* windowImpl.mu: the goroutine holding it, or NoThread
    pc,         \* per goroutine: position in the method it is running
    op,         \* per goroutine: the method it is running or last ran
    relLocal,   \* per goroutine: Release's local variable `released`
    issued,     \* per goroutine: requests issued by the current call, in order
    reply,      \* per goroutine: the reply (or error) of its checked request
    answers,    \* per goroutine: every answer its current call has had, in order
    ret,        \* per goroutine: what the call returned
    arg,        \* per goroutine: the argument of the call
    tp,         \* per goroutine: WarpMouse's local variable tp
    pend,       \* per goroutine: how many requests were on the connection when
                \* its Publish call started, how many of them are left, and
                \* whether Release had freed the handles when its call started
    ncalls,     \* number of calls started
    wire,       \* requests sent on w.s.xc and not yet processed by the server
    freed,      \* handles the server has freed
    freeReqs,   \* every free request ever issued, in order
    nObsFalse,  \* number of Release calls that read released = false
    width,      \* windowImpl.width
    height,     \* windowImpl.height
    pixelsPerPt,\* screenImpl.pixelsPerPt
    lcVisible,  \* windowImpl.lifecycler: the visible flag
    lcStage,    \* windowImpl.lifecycler: the stage last reported
    queue,      \* windowImpl.Deque: events sent and not yet taken
    produced,   \* every event the handlers sent, in the order they sent them
    consumed,   \* every event taken from the Deque, in the order taken
    calls,      \* the calls made by the handler that ran last, in order
    notif,      \* the notification handled last
    nnotif      \* number of notifications handled

callVars == <<pc, op, relLocal, issued, reply, answers, ret, arg, tp, pend, ncalls>>
connVars == <<wire, freed, freeReqs>>
evVars == <<width, height, pixelsPerPt, lcVisible, lcStage, queue, produced,
            consumed, calls, notif, nnotif>>
vars == <<released, mu, callVars, connVars, nObsFalse, evVars>>

\* What a cookie's Reply() or Check() gives once the server has answered.
NoReply == [none |-> TRUE, ok |-> FALSE, focus |-> "none", x |-> 0, y |-> 0]
ErrReply == [none |-> FALSE, ok |-> FALSE, focus |-> "none", x |-> 0, y |-> 0]
AckReply == [none |-> FALSE, ok |-> TRUE, focus |-> "none", x |-> 0, y |-> 0]
FocusReply(f) == [none |-> FALSE, ok |-> TRUE, focus |-> f, x |-> 0, y |-> 0]
PointReply(x, y) == [none |-> FALSE, ok |-> TRUE, focus |-> "none", x |-> x, y |-> y]

\* What a method returns: an error value (nil or an error) and, for
\* AbsolutePosition, a pair of integers.
NoRet == [err |-> "unset", x |-> 0, y |-> 0]
RetVoid == [err |-> "void", x |-> 0, y |-> 0]
RetNil == [err |-> "nil", x |-> 0, y |-> 0]
RetErr == [err |-> "error", x |-> 0, y |-> 0]
RetPoint(x, y) == [err |-> "void", x |-> x, y |-> y]
NoArg == <<>>
NoPend == [start |-> 0, left |-> 0, rel |-> FALSE]

\* A request as xgb puts it on the connection: its kind, the handles it names,
\* its payload, the goroutine that issued it and whether that goroutine waits
\* for the answer.
Req(kind, hs, data, t, checked) ==
    [kind |-> kind, hs |-> hs, data |-> data, by |-> t, checked |-> checked]

\* xgb request functions: NewRequest queues the request on the connection.
Issue(t, r) ==
    /\ wire' = Append(wire, r)
    /\ issued' = [issued EXCEPT ![t] = Append(@, r)]

PixelsPerPtValues == {1, 2}
NoNotif == [kind |-> "none"]

Init ==
    /\ released = FALSE
    /\ mu = NoThread
    /\ pc = [t \in Threads |-> "idle"]
    /\ op = [t \in Threads |-> "none"]
    /\ relLocal = [t \in Threads |-> FALSE]
    /\ issued = [t \in Threads |-> <<>>]
    /\ reply = [t \in Threads |-> NoReply]
    /\ answers = [t \in Threads |-> <<>>]
    /\ ret = [t \in Threads |-> NoRet]
    /\ arg = [t \in Threads |-> NoArg]
    /\ tp = [t \in Threads |-> <<0, 0>>]
    /\ pend = [t \in Threads |-> NoPend]
    /\ ncalls = 0
    /\ wire = <<>>
    /\ freed = {}
    /\ freeReqs = <<>>
    /\ nObsFalse = 0
    /\ width = 0
    /\ height = 0
    /\ pixelsPerPt \in PixelsPerPtValues
    /\ lcVisible = FALSE
    /\ lcStage = "StageDead"
    /\ queue = <<>>
    /\ produced = <<>>
    /\ consumed = <<>>
    /\ calls = <<>>
    /\ notif = NoNotif
    /\ nnotif = 0

\* A Release call that read released = false has returned: it has issued
\* DestroyWindow, the last of its frees.
ReleaseCompleted == \E i \in 1..Len(freeReqs) : freeReqs[i] = "DestroyWindow"

\* A goroutine that is not inside a call starts method o at label first.
Begin(t, o, a, first) ==
    /\ pc[t] \in {"idle", "done"}
    /\ ncalls < MaxCalls
    /\ ncalls' = ncalls + 1
    /\ pc' = [pc EXCEPT ![t] = first]
    /\ op' = [op EXCEPT ![t] = o]
    /\ issued' = [issued EXCEPT ![t] = <<>>]
    /\ tp' = [tp EXCEPT ![t] = <<0, 0>>]
    /\ reply' = [reply EXCEPT ![t] = NoReply]
    /\ answers' = [answers EXCEPT ![t] = <<>>]
    /\ ret' = [ret EXCEPT ![t] = NoRet]
    /\ arg' = [arg EXCEPT ![t] = a]
    /\ pend' = [pend EXCEPT ![t] = [start |-> IF o = "Publish" THEN Len(wire) ELSE 0,
                                     left |-> IF o = "Publish" THEN Len(wire) ELSE 0,
                                     rel |-> ReleaseCompleted]]

Goto(t, l) == pc' = [pc EXCEPT ![t] = l]

Return(t, v) ==
    /\ pc' = [pc EXCEPT ![t] = "done"]
    /\ ret' = [ret EXCEPT ![t] = v]

\* ------------------------------------------------------------------ Release
ReleaseCall(t) ==
    /\ Begin(t, "Release", NoArg, "Release_Lock")
    /\ UNCHANGED <<released, mu, relLocal, connVars, nObsFalse, evVars>>

\* w.mu.Lock()
ReleaseLock(t) ==
    /\ pc[t] = "Release_Lock"
    /\ mu = NoThread
    /\ mu' = t
    /\ Goto(t, "Release_Read")
    /\ UNCHANGED <<released, op, relLocal, issued, reply, answers, ret, arg, tp, pend, ncalls, connVars, nObsFalse, evVars>>

\* released := w.released
ReleaseRead(t) ==
    /\ pc[t] = "Release_Read"
    /\ relLocal' = [relLocal EXCEPT ![t] = released]
    /\ nObsFalse' = IF released THEN nObsFalse ELSE nObsFalse + 1
    /\ Goto(t, "Release_Set")
    /\ UNCHANGED <<released, mu, op, issued, reply, answers, ret, arg, tp, pend, ncalls, connVars, evVars>>

\* Release marking the window dead in the lifecycle state as it sets the flag.
ReleaseSetMarksDead(t) ==
    /\ pc[t] = "Release_Set"
    /\ released' = TRUE
    /\ lcVisible' = FALSE
    /\ lcStage' = "StageDead"
    /\ Goto(t, "Release_Unlock")
    /\ UNCHANGED <<mu, op, relLocal, issued, reply, answers, ret, arg, tp, pend, ncalls,
                   connVars, nObsFalse, width, height, pixelsPerPt, queue, produced,
                   consumed, calls, notif, nnotif>>

\* Release going on without setting the flag.
ReleaseSetSkipped(t) ==
    /\ pc[t] = "Release_Set"
    /\ Goto(t, "Release_Unlock")
    /\ UNCHANGED <<released, mu, op, relLocal, issued, reply, answers, ret, arg, tp, pend, ncalls,
                   connVars, nObsFalse, evVars>>

\* w.released = true
ReleaseSet(t) ==
    /\ pc[t] = "Release_Set"
    /\ released' = TRUE
    /\ Goto(t, "Release_Unlock")
    /\ UNCHANGED <<mu, op, relLocal, issued, reply, answers, ret, arg, tp, pend, ncalls, connVars, nObsFalse, evVars>>

\* w.mu.Unlock()
ReleaseUnlock(t) ==
    /\ pc[t] = "Release_Unlock"
    /\ mu' = NoThread
    /\ Goto(t, "Release_Check")
    /\ UNCHANGED <<released, op, relLocal, issued, reply, answers, ret, arg, tp, pend, ncalls, connVars, nObsFalse, evVars>>

\* Release without its early return: every call goes on to the frees.
ReleaseCheckAlwaysFrees(t) ==
    /\ pc[t] = "Release_Check"
    /\ Goto(t, "Release_FreePicture")
    /\ UNCHANGED <<released, mu, op, relLocal, issued, reply, answers, ret, arg, tp, pend, ncalls,
                   connVars, nObsFalse, evVars>>

\* if released { return }
ReleaseCheck(t) ==
    /\ pc[t] = "Release_Check"
    /\ IF relLocal[t]
         THEN Return(t, RetVoid)
         ELSE Goto(t, "Release_FreePicture") /\ UNCHANGED ret
    /\ UNCHANGED <<released, mu, op, relLocal, issued, reply, answers, arg, tp, pend, ncalls, connVars, nObsFalse, evVars>>

ReleaseFree(t, kind, h) ==
    /\ Issue(t, Req(kind, {h}, NoArg, t, FALSE))
    /\ freeReqs' = Append(freeReqs, kind)
    /\ UNCHANGED <<released, mu, op, relLocal, reply, answers, arg, tp, pend, ncalls, freed, nObsFalse, evVars>>

\* Release destroying the window first.
ReleaseFreePictureWindowFirst(t) ==
    /\ pc[t] = "Release_FreePicture"
    /\ ReleaseFree(t, "DestroyWindow", "xw")
    /\ Goto(t, "Release_FreeGC")
    /\ UNCHANGED ret

\* render.FreePicture(w.s.xc, w.xp)
ReleaseFreePicture(t) ==
    /\ pc[t] = "Release_FreePicture"
    /\ ReleaseFree(t, "FreePicture", "xp")
    /\ Goto(t, "Release_FreeGC")
    /\ UNCHANGED ret

\* xproto.FreeGC(w.s.xc, w.xg)
ReleaseFreeGC(t) ==
    /\ pc[t] = "Release_FreeGC"
    /\ ReleaseFree(t, "FreeGC", "xg")
    /\ Goto(t, "Release_DestroyWindow")
    /\ UNCHANGED ret

\* Release returning without destroying the window.
ReleaseDestroyWindowSkipped(t) ==
    /\ pc[t] = "Release_DestroyWindow"
    /\ Return(t, RetVoid)
    /\ UNCHANGED <<released, mu, op, relLocal, issued, reply, answers, arg, tp, pend, ncalls,
                   connVars, nObsFalse, evVars>>

\* xproto.DestroyWindow(w.s.xc, w.xw)
ReleaseDestroyWindow(t) ==
    /\ pc[t] = "Release_DestroyWindow"
    /\ ReleaseFree(t, "DestroyWindow", "xw")
    /\ Return(t, RetVoid)

Release(t) ==
    \/ ReleaseCall(t)
    \/ ReleaseLock(t)
    \/ ReleaseRead(t)
    \/ ReleaseSet(t)
    \/ ReleaseUnlock(t)
    \/ ReleaseCheck(t)
    \/ ReleaseFreePicture(t)
    \/ ReleaseFreeGC(t)
    \/ ReleaseDestroyWindow(t)

\* ------------------------------------------- drawing and window operations
\* What these methods leave alone: they take no lock and read no flag.
opFrame == <<released, mu, relLocal, freed, freeReqs, nObsFalse, evVars>>

\* The goroutine issues request r and goes on to label l.
IssueStep(t, r, l) ==
    /\ Issue(t, r)
    /\ reply' = [reply EXCEPT ![t] = NoReply]
    /\ Goto(t, l)
    /\ UNCHANGED <<op, answers, ret, arg, tp, pend, ncalls>>
    /\ UNCHANGED opFrame

\* The goroutine returns v without issuing anything.
JustReturn(t, v) ==
    /\ Return(t, v)
    /\ UNCHANGED <<op, issued, reply, answers, arg, tp, pend, ncalls, wire>>
    /\ UNCHANGED opFrame

\* cookie.Reply() and cookie.Check() block until the server has answered.
Answered(t) == ~reply[t].none

CheckResultDropped(rp) == RetNil

\* return cookie.Check(): nil when the server acknowledged the request, the
\* error when it rejected it.
CheckResult(rp) == IF rp.ok THEN RetNil ELSE RetErr

BeginOp(t, o, a, first) ==
    /\ Begin(t, o, a, first)
    /\ UNCHANGED <<released, mu, relLocal, connVars, nObsFalse, evVars>>

\* int16(n): the low 16 bits of n, read as a signed number.
Int16(n) == ((n + 32768) % 65536) - 32768

\* xproto.TimeCurrentTime
TimeCurrentTime == 0

\* Publish returning without waiting for the answer to its Sync.
PublishNoWait(t) == TRUE

\* Sync returns once its own request has been answered.
PublishSynced(t) == Answered(t)

\* AbsolutePosition handing the failure to its caller.
AbsolutePositionResultPropagates(rp) == IF rp.ok THEN RetPoint(rp.x, rp.y) ELSE RetErr

\* if err == nil { return int(DstX), int(DstY) }; return 0, 0
AbsolutePositionResult(rp) == IF rp.ok THEN RetPoint(rp.x, rp.y) ELSE RetPoint(0, 0)

\* translateToScreen handing back the point of the reply whether or not the
\* reply is an error.
translateToScreenIgnoresError(t) ==
    \/ /\ pc[t] = "translateToScreen_TranslateCoordinates"
       /\ IssueStep(t, Req("TranslateCoordinates", {"xw", "root"},
                           [src |-> "xw", dst |-> "root", x |-> Int16(arg[t][1]),
                            y |-> Int16(arg[t][2])], t, TRUE),
                    "translateToScreen_Reply")
    \/ /\ pc[t] = "translateToScreen_Reply"
       /\ Answered(t)
       /\ tp' = [tp EXCEPT ![t] = <<reply[t].x, reply[t].y>>]
       /\ Goto(t, "WarpMouse_WarpPointer")
       /\ UNCHANGED <<op, issued, reply, answers, ret, arg, pend, ncalls, wire>>
       /\ UNCHANGED opFrame

translateToScreen(t) ==
    \/ /\ pc[t] = "translateToScreen_TranslateCoordinates"
       /\ IssueStep(t, Req("TranslateCoordinates", {"xw", "root"},
                           [src |-> "xw", dst |-> "root", x |-> Int16(arg[t][1]),
                            y |-> Int16(arg[t][2])], t, TRUE),
                    "translateToScreen_Reply")
    \/ /\ pc[t] = "translateToScreen_Reply"
       /\ Answered(t)
       /\ IF ~reply[t].ok THEN JustReturn(t, RetErr)
          ELSE /\ tp' = [tp EXCEPT ![t] = <<reply[t].x, reply[t].y>>]
               /\ Goto(t, "WarpMouse_WarpPointer")
               /\ UNCHANGED <<op, issued, reply, answers, ret, arg, pend, ncalls, wire>>
               /\ UNCHANGED opFrame

\* A method that issues the requests rs without waiting and returns v runs in
\* one step.
Direct(t, o, a, rs, v) ==
    /\ pc[t] \in {"idle", "done"}
    /\ ncalls < MaxCalls
    /\ ncalls' = ncalls + 1
    /\ pc' = [pc EXCEPT ![t] = "done"]
    /\ op' = [op EXCEPT ![t] = o]
    /\ arg' = [arg EXCEPT ![t] = a]
    /\ issued' = [issued EXCEPT ![t] = rs]
    /\ wire' = wire \o rs
    /\ reply' = [reply EXCEPT ![t] = NoReply]
    /\ answers' = [answers EXCEPT ![t] = <<>>]
    /\ ret' = [ret EXCEPT ![t] = v]
    /\ tp' = [tp EXCEPT ![t] = <<0, 0>>]
    /\ pend' = [pend EXCEPT ![t] = [NoPend EXCEPT !.rel = ReleaseCompleted]]
    /\ UNCHANGED opFrame

\* bufferImpl.upload puts the image on the drawable with the graphics context.
Upload(t) ==
    Direct(t, "Upload", NoArg, <<Req("PutImage", {"xw", "xg"}, NoArg, t, FALSE)>>, RetVoid)

\* fill composites a rectangle of colour onto the picture.
Fill(t) ==
    Direct(t, "Fill", NoArg, <<Req("FillRectangles", {"xp"}, NoArg, t, FALSE)>>, RetVoid)

\* screenImpl.drawUniform composites a uniform colour onto the picture.
DrawUniform(t) ==
    Direct(t, "DrawUniform", NoArg, <<Req("Composite", {"xp"}, "uniform", t, FALSE)>>, RetVoid)

\* textureImpl.draw composites the texture onto the picture.
Draw(t) ==
    Direct(t, "Draw", NoArg, <<Req("Composite", {"xp"}, "texture", t, FALSE)>>, RetVoid)

\* drawer.Copy(w, ...) draws the texture with w.Draw.
Copy(t) == Draw(t)

\* drawer.Scale(w, ...) draws the texture with w.Draw.
Scale(t) == Draw(t)

\* w.s.xc.Sync() sends a request and blocks until the server has answered it.
Publish(t) ==
    \/ /\ BeginOp(t, "Publish", NoArg, "Publish_Sync")
    \/ /\ pc[t] = "Publish_Sync"
       /\ IssueStep(t, Req("Sync", {}, NoArg, t, TRUE), "Publish_Synced")
    \/ /\ pc[t] = "Publish_Synced"
       /\ PublishSynced(t)
       /\ JustReturn(t, RetVoid)

Titles == {<<69, 120>>}

SetTitle(t) ==
    \/ /\ \E title \in Titles : BeginOp(t, "SetTitle", title, "SetTitle_ChangeProperty")
    \/ /\ pc[t] = "SetTitle_ChangeProperty"
       /\ LET buf == arg[t] IN
            IssueStep(t, Req("ChangeProperty", {"xw"},
                             [mode |-> "PropModeReplace", property |-> "atomNetWMName",
                              type |-> "atomUTF8String", format |-> 8,
                              len |-> Len(buf), data |-> buf], t, TRUE),
                      "SetTitle_Check")
    \/ /\ pc[t] = "SetTitle_Check"
       /\ Answered(t)
       /\ JustReturn(t, CheckResult(reply[t]))

\* w.s.cursorCache: the cursors the screen has loaded, with their handles.
Cursors == {"arrow", "unknown"}
cursorCache == [c \in {"arrow"} |-> "arrowCursorId"]

\* cursorId, ok := w.s.cursorCache[cursor]
CacheHit(cursor) == cursor \in DOMAIN cursorCache

\* SetCursor installing the zero cursor when the cache has none.
SetCursorRequestsAlways(t, cursor) ==
    <<Req("ChangeWindowAttributes", {"xw"},
          [mask |-> "CwCursor",
           values |-> <<IF CacheHit(cursor) THEN cursorCache[cursor] ELSE "zeroCursorId">>],
          t, FALSE)>>

\* The requests SetCursor issues for a cursor.
SetCursorRequests(t, cursor) ==
    IF CacheHit(cursor)
      THEN <<Req("ChangeWindowAttributes", {"xw"},
                 [mask |-> "CwCursor", values |-> <<cursorCache[cursor]>>], t, FALSE)>>
      ELSE <<>>

SetCursor(t) ==
    \E cursor \in Cursors :
        Direct(t, "SetCursor", cursor, SetCursorRequests(t, cursor), RetNil)

Points == {<<1, 2>>, <<70000, -5>>}

\* The focus test inverted.
NotFocusedInverted(rp) == rp.focus = "xw"

\* if gifr.Focus != w.xw { return nil }
NotFocused(rp) == rp.focus # "xw"

WarpMouse(t) ==
    \/ /\ \E p \in Points : BeginOp(t, "WarpMouse", p, "WarpMouse_GetInputFocus")
    \/ /\ pc[t] = "WarpMouse_GetInputFocus"
       /\ IssueStep(t, Req("GetInputFocus", {}, NoArg, t, TRUE), "WarpMouse_Focus")
    \/ /\ pc[t] = "WarpMouse_Focus"
       /\ Answered(t)
       /\ IF ~reply[t].ok THEN JustReturn(t, RetErr)
          ELSE IF NotFocused(reply[t]) THEN JustReturn(t, RetNil)
          ELSE /\ Goto(t, "translateToScreen_TranslateCoordinates")
               /\ UNCHANGED <<op, issued, reply, answers, ret, arg, tp, pend, ncalls, wire>>
               /\ UNCHANGED opFrame
    \/ translateToScreen(t)
    \/ /\ pc[t] = "WarpMouse_WarpPointer"
       /\ IssueStep(t, Req("WarpPointer", {"root"},
                           [src |-> 0, dst |-> "root", x |-> Int16(tp[t][1]),
                            y |-> Int16(tp[t][2])], t, TRUE),
                    "WarpMouse_Check")
    \/ /\ pc[t] = "WarpMouse_Check"
       /\ Answered(t)
       /\ JustReturn(t, CheckResult(reply[t]))

\* xproto.ClientMessageEvent of Raise.
RaiseMessage ==
    [Format |-> 32, Window |-> "xw", Type |-> "atomNetActiveWindow",
     Data |-> <<0, TimeCurrentTime, 0, 0, 0>>]

\* Raise giving up, without mapping the window, when its SendEvent was rejected.
RaiseStopsOnRejectedSend(t) ==
    \/ /\ BeginOp(t, "Raise", NoArg, "Raise_SendEvent")
    \/ /\ pc[t] = "Raise_SendEvent"
       /\ IssueStep(t, Req("SendEvent", {"root"}, RaiseMessage, t, TRUE), "Raise_SendCheck")
    \/ /\ pc[t] = "Raise_SendCheck"
       /\ Answered(t)
       /\ IF reply[t].ok
            THEN IssueStep(t, Req("MapWindow", {"xw"}, NoArg, t, TRUE), "Raise_MapCheck")
            ELSE JustReturn(t, RetNil)
    \/ /\ pc[t] = "Raise_MapCheck"
       /\ Answered(t)
       /\ JustReturn(t, RetNil)

Raise(t) ==
    \/ /\ BeginOp(t, "Raise", NoArg, "Raise_SendEvent")
    \/ /\ pc[t] = "Raise_SendEvent"
       /\ IssueStep(t, Req("SendEvent", {"root"}, RaiseMessage, t, TRUE), "Raise_SendCheck")
    \/ /\ pc[t] = "Raise_SendCheck"
       /\ Answered(t)
       /\ IssueStep(t, Req("MapWindow", {"xw"}, NoArg, t, TRUE), "Raise_MapCheck")
    \/ /\ pc[t] = "Raise_MapCheck"
       /\ Answered(t)
       /\ JustReturn(t, RetNil)

AbsolutePosition(t) ==
    \/ /\ BeginOp(t, "AbsolutePosition", NoArg, "AbsolutePosition_TranslateCoordinates")
    \/ /\ pc[t] = "AbsolutePosition_TranslateCoordinates"
       /\ IssueStep(t, Req("TranslateCoordinates", {"xw", "root"},
                           [src |-> "xw", dst |-> "root", x |-> 0, y |-> 0], t, TRUE),
                    "AbsolutePosition_Reply")
    \/ /\ pc[t] = "AbsolutePosition_Reply"
       /\ Answered(t)
       /\ JustReturn(t, AbsolutePositionResult(reply[t]))

\* ------------------------------------------------------------ the server
FreeKinds == {"FreePicture", "FreeGC", "DestroyWindow"}

\* The answers the server can give to request r. A request that names a freed
\* handle is answered with an error; any request can be.
FocusWindows == {"xw", "other"}
DstPoints == {<<0, 0>>, <<7, -3>>}
Replies(r) ==
    IF r.hs \cap freed # {} THEN {ErrReply}
    ELSE {ErrReply} \cup
         (CASE r.kind = "GetInputFocus" ->
                   {FocusReply(f) : f \in FocusWindows \ freed}
            [] r.kind = "TranslateCoordinates" ->
                   {PointReply(d[1], d[2]) : d \in DstPoints}
            [] OTHER -> {AckReply})

\* The X server takes the oldest request of the connection and answers it.
ServerStep ==
    /\ wire # <<>>
    /\ LET r == Head(wire) IN
         /\ wire' = Tail(wire)
         /\ freed' = IF r.kind \in FreeKinds THEN freed \cup r.hs ELSE freed
         /\ IF r.checked
              THEN \E rp \in Replies(r) :
                       /\ reply' = [reply EXCEPT ![r.by] = rp]
                       /\ answers' = [answers EXCEPT ![r.by] = Append(@, rp)]
              ELSE UNCHANGED <<reply, answers>>
    /\ pend' = [t \in Threads |->
                    IF pend[t].left > 0 THEN [pend[t] EXCEPT !.left = @ - 1] ELSE pend[t]]
    /\ UNCHANGED <<released, mu, pc, op, relLocal, issued, ret, arg, tp, ncalls,
                   freeReqs, nObsFalse, evVars>>

\* ------------------------------------------------- the event-delivery path
\* The handlers run in the screenImpl.run goroutine. Each is a function of the
\* window's state W; every call it makes is appended to W.calls, and every event
\* it sends is appended to W.produced with the number n of the notification.
W == [width |-> width, height |-> height, visible |-> lcVisible, stage |-> lcStage,
      queue |-> queue, produced |-> produced, calls |-> <<>>, n |-> nnotif + 1]

Call(c, a) == [c |-> c, arg |-> a]

\* event.Deque.Send: the event goes to the back of the queue.
Send(s, e) ==
    [s EXCEPT !.queue = Append(@, e),
              !.produced = Append(@, [n |-> s.n, e |-> e]),
              !.calls = Append(@, Call("Send", e))]

\* lifecycler.State.SetVisible
SetVisible(s, v) ==
    [s EXCEPT !.visible = v, !.calls = Append(@, Call("SetVisible", v))]

\* lifecycler.State.SendEvent: sends a lifecycle event if the stage changed.
SendEvent(s) ==
    LET from == s.stage
        to == IF s.visible THEN "StageVisible" ELSE "StageAlive"
        s1 == [s EXCEPT !.stage = to, !.calls = Append(@, Call("SendEvent", "nil"))]
    IN IF from # to
         THEN Send(s1, [type |-> "lifecycle", From |-> from, To |-> to])
         ELSE s1

\* size.Event as handleConfigureNotify builds it; geom.Pt(n) converts the
\* integer n to a float32 of the same value.
SizeEvent(w, h) ==
    [type |-> "size", WidthPx |-> w, HeightPx |-> h, WidthPt |-> w, HeightPt |-> h,
     PixelsPerPt |-> pixelsPerPt]

\* The sums taken in 16 bits.
ViewableWrapped(ev) == Int16(ev.X + ev.Width) > 0 /\ Int16(ev.Y + ev.Height) > 0

\* (int(ev.X)+int(ev.Width)) > 0 && (int(ev.Y)+int(ev.Height)) > 0
Viewable(ev) == (ev.X + ev.Width) > 0 /\ (ev.Y + ev.Height) > 0

\* The size check comparing the heights only.
SameSizeHeightOnly(s, newWidth, newHeight) == s.height = newHeight

\* The size check comparing the widths only.
SameSizeWidthOnly(s, newWidth, newHeight) == s.width = newWidth

\* if w.width == newWidth && w.height == newHeight { return }
SameSize(s, newWidth, newHeight) == s.width = newWidth /\ s.height = newHeight

\* handleConfigureNotify returning on an unchanged size before it has told the
\* lifecycler anything.
handleConfigureNotifySizeFirst(s, ev) ==
    IF SameSize(s, ev.Width, ev.Height)
      THEN s
      ELSE LET s1 == SetVisible(s, Viewable(ev))
               s2 == SendEvent(s1)
           IN Send([s2 EXCEPT !.width = ev.Width, !.height = ev.Height],
                   SizeEvent(ev.Width, ev.Height))

handleConfigureNotify(s, ev) ==
    LET s1 == SetVisible(s, Viewable(ev))
        s2 == SendEvent(s1)
        newWidth == ev.Width
        newHeight == ev.Height
    IN IF SameSize(s2, newWidth, newHeight)
         THEN s2
         ELSE Send([s2 EXCEPT !.width = newWidth, !.height = newHeight],
                   SizeEvent(newWidth, newHeight))

\* handleExpose putting the paint event at the front of the queue.
handleExposeFirst(s) ==
    LET e == [type |-> "paint"]
    IN [s EXCEPT !.queue = <<e>> \o @,
                 !.produced = Append(@, [n |-> s.n, e |-> e]),
                 !.calls = Append(@, Call("SendFirst", e))]

handleExpose(s) == Send(s, [type |-> "paint"])

\* x11key.KeyModifiers: the X11 state bits shift, control, mod1 and mod4 become
\* key.ModShift, ModControl, ModAlt and ModMeta.
Bit(n, k) == (n \div k) % 2
KeyModifiers(state) ==
    Bit(state, 1) + 2 * Bit(state, 4) + 4 * Bit(state, 8) + 8 * Bit(state, 64)

\* w.s.keysyms.Lookup: the rune and the code a keycode stands for under a state.
Lookup(detail, state) == [r |-> <<"rune", detail, Bit(state, 1)>>, c |-> <<"code", detail>>]

handleKey(s, detail, state, dir) ==
    LET rc == Lookup(detail % 256, state)
    IN Send(s, [type |-> "key", Rune |-> rc.r, Code |-> rc.c,
                Modifiers |-> KeyModifiers(state), Direction |-> dir])

\* mouse.ButtonWheelUp, ButtonWheelDown, ButtonWheelLeft, ButtonWheelRight
ButtonWheelUp == -1
ButtonWheelDown == -2
ButtonWheelLeft == -3
ButtonWheelRight == -4

\* mouse.Button.IsWheel
IsWheel(btn) == btn < 0

\* The wheel buttons 4 and 5 exchanged.
WheelRemapSwapped(btn) ==
    CASE btn = 4 -> ButtonWheelDown
      [] btn = 5 -> ButtonWheelUp
      [] btn = 6 -> ButtonWheelLeft
      [] btn = 7 -> ButtonWheelRight
      [] OTHER -> btn

\* switch btn { case 4: ... case 7: ... }
WheelRemap(btn) ==
    CASE btn = 4 -> ButtonWheelUp
      [] btn = 5 -> ButtonWheelDown
      [] btn = 6 -> ButtonWheelLeft
      [] btn = 7 -> ButtonWheelRight
      [] OTHER -> btn

\* if dir != mouse.DirPress { return }
WheelDropped(dir) == dir # "DirPress"

handleMouse(s, x, y, b, state, dir) ==
    LET btn == WheelRemap(b)
        ev(d) == [type |-> "mouse", X |-> x, Y |-> y, Button |-> btn,
                  Modifiers |-> KeyModifiers(state), Direction |-> d]
    IN IF IsWheel(btn)
         THEN IF WheelDropped(dir) THEN s ELSE Send(s, ev("DirStep"))
         ELSE Send(s, ev(dir))

\* The notifications the model delivers: positions and sizes on both sides of
\* zero and of the 16-bit limits, each wheel button and its neighbours.
ConfigureXs == {-2, 32767}
ConfigureYs == {-2}
ConfigureWidths == {0, 1, 65535}
ConfigureHeights == {0, 600}
ConfigureNotifyEvents ==
    [kind : {"configure"}, X : ConfigureXs, Y : ConfigureYs,
     Width : ConfigureWidths, Height : ConfigureHeights]
Keycodes == {38}
States == {5}
KeyDirections == {"DirPress", "DirRelease"}
Buttons == {3, 4, 5, 6, 7, 8}
MouseInputs ==
    (Buttons \X {"DirPress", "DirRelease"}) \cup {<<0, "DirNone">>, <<5, "DirNone">>}

\* The run goroutine has handled notification n: the window takes the state s.
Handled(n, s) ==
    /\ nnotif < MaxNotifs
    /\ nnotif' = nnotif + 1
    /\ notif' = n
    /\ width' = s.width
    /\ height' = s.height
    /\ lcVisible' = s.visible
    /\ lcStage' = s.stage
    /\ queue' = s.queue
    /\ produced' = s.produced
    /\ calls' = s.calls
    /\ UNCHANGED <<released, mu, callVars, connVars, nObsFalse, pixelsPerPt, consumed>>

RunConfigureNotify ==
    \E ev \in ConfigureNotifyEvents : Handled(ev, handleConfigureNotify(W, ev))

RunExpose == Handled([kind |-> "expose"], handleExpose(W))

RunKey ==
    \E detail \in Keycodes, state \in States, dir \in KeyDirections :
        Handled([kind |-> "key", detail |-> detail, state |-> state, dir |-> dir],
                handleKey(W, detail, state, dir))

RunMouse ==
    \E in \in MouseInputs, state \in States :
        Handled([kind |-> "mouse", x |-> 3, y |-> -4, b |-> in[1], state |-> state, dir |-> in[2]],
                handleMouse(W, 3, -4, in[1], state, in[2]))

\* event.Deque.NextEvent: a consumer takes the event at the front of the queue.
NextEvent ==
    /\ queue # <<>>
    /\ consumed' = Append(consumed, Head(queue))
    /\ queue' = Tail(queue)
    /\ UNCHANGED <<released, mu, callVars, connVars, nObsFalse, width, height,
                   pixelsPerPt, lcVisible, lcStage, produced, calls, notif, nnotif>>

NextEvents ==
    \/ RunConfigureNotify
    \/ RunExpose
    \/ RunKey
    \/ RunMouse
    \/ NextEvent

SpecEvents == Init /\ [][NextEvents]_vars

CallerOp(t) ==
    \/ Release(t)
    \/ Upload(t)
    \/ Fill(t)
    \/ DrawUniform(t)
    \/ Draw(t)
    \/ Copy(t)
    \/ Scale(t)
    \/ Publish(t)
    \/ SetTitle(t)
    \/ SetCursor(t)
    \/ WarpMouse(t)
    \/ Raise(t)
    \/ AbsolutePosition(t)

NextOps ==
    \/ \E t \in Threads : CallerOp(t)
    \/ ServerStep

\* The calls do not read the scale factor: one value of it is enough here.
InitCalls == Init /\ pixelsPerPt = 1

SpecOps == InitCalls /\ [][NextOps]_vars

NextRelease ==
    \/ \E t \in Threads : Release(t)
    \/ ServerStep

SpecRelease == InitCalls /\ [][NextRelease]_vars

\* The whole window: a caller's goroutine, the X server, the goroutine that
\* handles the server's notifications and the consumer of the queue,
\* interleaved (SpecOps interleaves the callers with each other).  MaxSteps
\* caps the calls started and the notifications handled, taken together.
Next ==
    /\ CallerOp(1) \/ ServerStep \/ NextEvents
    /\ ncalls' + nnotif' <= MaxSteps

Spec == InitCalls /\ [][Next]_vars

\* -------------------------------------------------------------- properties
Kinds(rs) == [i \in 1..Len(rs) |-> rs[i].kind]
Count(seq, x) == Cardinality({i \in 1..Len(seq) : seq[i] = x})
FreeOrder == <<"FreePicture", "FreeGC", "DestroyWindow">>
Quiescent == \A t \in Threads : pc[t] \in {"idle", "done"}
\* The goroutine is in Release and has read the flag.
HasRead(t) ==
    /\ op[t] = "Release"
    /\ pc[t] \notin {"Release_Lock", "Release_Read"}

\* C1: however the Release calls of concurrent callers interleave, each of
\* FreePicture, FreeGC and DestroyWindow is issued at most once and, once every
\* call has returned, exactly once; at most one call reads released = false, a
\* call that has returned after reading false has issued exactly the three, and
\* a call that read true issues no request at all.
C1_FreesExactlyOnce ==
    /\ \A k \in FreeKinds : Count(freeReqs, k) <= 1
    /\ nObsFalse <= 1
    /\ (Quiescent /\ released) => freeReqs = FreeOrder
    /\ \A t \in Threads :
         /\ (HasRead(t) /\ relLocal[t]) => issued[t] = <<>>
         /\ (HasRead(t) /\ ~relLocal[t] /\ pc[t] = "done") => Kinds(issued[t]) = FreeOrder

\* Two Release calls have returned, one having read false and one true.
C1_Witness ==
    \E t, u \in Threads :
        /\ t # u
        /\ op[t] = "Release" /\ pc[t] = "done" /\ ~relLocal[t]
        /\ op[u] = "Release" /\ pc[u] = "done" /\ relLocal[u]
        /\ freeReqs = FreeOrder

IsPrefix(a, b) == Len(a) <= Len(b) /\ a = SubSeq(b, 1, Len(a))

\* C2: the frees go surface, context, window: the requests are issued in that
\* order, and in every state the server has freed the context only if it has
\* freed the surface, and the window only if it has freed the context.
C2_FreeOrder ==
    /\ IsPrefix(freeReqs, FreeOrder)
    /\ \A t \in Threads : op[t] = "Release" => IsPrefix(Kinds(issued[t]), FreeOrder)
    /\ "xg" \in freed => "xp" \in freed
    /\ "xw" \in freed => "xg" \in freed

\* The server has freed the window, the last of the three.
C2_Witness == "xw" \in freed /\ released

\* The step handles a notification of kind k.
Handling(k) == nnotif' = nnotif + 1 /\ notif'.kind = k
\* The events the step put on the queue, if it only added to its back.
Added == SubSeq(queue', Len(queue) + 1, Len(queue'))
IsSize(e) == e.type = "size"
IsNormalized(e) == e.type \in {"size", "paint", "key", "mouse"}
SizeSends == SelectSeq(calls, LAMBDA c : c.c = "Send" /\ c.arg.type = "size")

\* C3: the stored pair starts as (0,0); a step that handles a configure
\* notification adds events to the back of the queue only, and among them a size
\* event exactly when the notification's (width, height) differs from the pair
\* stored before the step: then exactly one, with the new pixel width and height
\* and the screen's pixelsPerPt; otherwise none.
C3_SizeEventIffChanged ==
    /\ (width = 0 /\ height = 0)
    /\ [][Handling("configure") =>
            /\ queue' = queue \o Added
            /\ LET sizes == SelectSeq(Added, IsSize)
               IN IF <<notif'.Width, notif'.Height>> # <<width, height>>
                    THEN /\ Len(sizes) = 1
                         /\ sizes[1].WidthPx = notif'.Width
                         /\ sizes[1].HeightPx = notif'.Height
                         /\ sizes[1].PixelsPerPt = pixelsPerPt
                    ELSE sizes = <<>>]_vars

\* Two configure notifications of the same non-zero size were handled: the
\* second one sent no size event and the queue holds one in all.
C3_Witness ==
    /\ nnotif = 2
    /\ notif.kind = "configure"
    /\ notif.Width # 0
    /\ SizeSends = <<>>
    /\ consumed = <<>>
    /\ Len(SelectSeq(queue, IsSize)) = 1

Events(ps) == [i \in 1..Len(ps) |-> ps[i].e]

\* C4: the events taken from the queue followed by those still in it are the
\* events the handlers sent, in the order the notifications were handled.
C4_QueueIsFifo ==
    /\ consumed \o queue = Events(produced)
    /\ \A i, j \in 1..Len(produced) : i < j => produced[i].n <= produced[j].n

\* A configure notification that changed the size, an expose and a key press
\* were handled in that order; the consumer has taken the first events and the
\* normalized events read size, paint, key.
C4_Witness ==
    /\ nnotif = 3
    /\ consumed # <<>>
    /\ LET norm == SelectSeq(produced, LAMBDA p : IsNormalized(p.e))
       IN /\ Len(norm) = 3
          /\ norm[1].e.type = "size" /\ norm[1].n = 1
          /\ norm[2].e.type = "paint" /\ norm[2].n = 2
          /\ norm[3].e.type = "key" /\ norm[3].n = 3 /\ norm[3].e.Direction = "DirPress"
          /\ SelectSeq(consumed \o queue, IsNormalized) = Events(norm)

\* C5: a step that handles a mouse notification for button 4, 5, 6 or 7 adds
\* one event with the button wheel-up, -down, -left, -right and the direction
\* step when the direction is press, and leaves the queue unchanged for any
\* other direction; for any other button it adds one event with the button and
\* the direction as given.
C5_WheelRemap ==
    [][Handling("mouse") =>
         LET b == notif'.b
             dir == notif'.dir
             wheel == CASE b = 4 -> ButtonWheelUp [] b = 5 -> ButtonWheelDown
                        [] b = 6 -> ButtonWheelLeft [] b = 7 -> ButtonWheelRight
                        [] OTHER -> 0
         IN IF b \in 4..7
              THEN IF dir = "DirPress"
                     THEN /\ queue' = queue \o Added
                          /\ Len(Added) = 1
                          /\ Added[1].type = "mouse"
                          /\ Added[1].Button = wheel
                          /\ Added[1].Direction = "DirStep"
                     ELSE queue' = queue
              ELSE /\ queue' = queue \o Added
                   /\ Len(Added) = 1
                   /\ Added[1].type = "mouse"
                   /\ Added[1].Button = b
                   /\ Added[1].Direction = dir]_vars

\* A press of button 5 and then its release were handled: the queue holds the
\* one wheel-down step of the press.
C5_Witness ==
    /\ nnotif = 2
    /\ notif.kind = "mouse" /\ notif.b = 5 /\ notif.dir = "DirRelease"
    /\ calls = <<>>
    /\ Len(queue) = 1
    /\ queue[1].type = "mouse"
    /\ queue[1].Button = ButtonWheelDown
    /\ queue[1].Direction = "DirStep"

\* C6: after a configure notification, whether or not it changed the size, the
\* handler's first call was SetVisible with the boolean computed from the
\* notification, its second SendEvent, each made once, and every event it sent
\* came after both.
C6_LifecycleFirst ==
    notif.kind = "configure" =>
        /\ Len(calls) >= 2
        /\ calls[1] = Call("SetVisible",
                           (notif.X + notif.Width > 0) /\ (notif.Y + notif.Height > 0))
        /\ calls[2] = Call("SendEvent", "nil")
        /\ \A i \in 3..Len(calls) : calls[i].c = "Send"
        /\ Len(SizeSends) <= 1

\* A configure notification that left size and stage as they were: the handler
\* made the two lifecycler calls and nothing else.
C6_Witness ==
    /\ notif.kind = "configure"
    /\ nnotif >= 2
    /\ Len(calls) = 2
    /\ <<notif.Width, notif.Height>> = <<width, height>>

\* The goroutine's call of method o has returned.
Returned(t, o) == op[t] = o /\ pc[t] = "done"
\* The input-focus reply of the goroutine's WarpMouse names another window.
FocusElsewhere(t) ==
    /\ op[t] = "WarpMouse"
    /\ reply[t].ok
    /\ reply[t].focus \notin {"none", "xw"}

\* C7: once the input-focus reply of a WarpMouse call names another window,
\* the call issues nothing more (its only request is the focus query: no
\* TranslateCoordinates, no WarpPointer) and it returns nil.
C7_WarpUnfocusedNoop ==
    \A t \in Threads :
        FocusElsewhere(t) =>
            /\ Kinds(issued[t]) = <<"GetInputFocus">>
            /\ pc[t] \in {"WarpMouse_Focus", "done"}
            /\ pc[t] = "done" => ret[t] = RetNil

\* A WarpMouse call has returned on a window that is not the focused one.
C7_Witness ==
    \E t \in Threads :
        /\ Returned(t, "WarpMouse")
        /\ FocusElsewhere(t)
        /\ ret[t] = RetNil

\* C8: AbsolutePosition returns two integers and no error: (0,0) when the
\* TranslateCoordinates reply failed, the reply's DstX and DstY when it did not.
C8_AbsolutePositionLossy ==
    \A t \in Threads :
        Returned(t, "AbsolutePosition") =>
            /\ Kinds(issued[t]) = <<"TranslateCoordinates">>
            /\ ret[t].err = "void"
            /\ reply[t].ok => <<ret[t].x, ret[t].y>> = <<reply[t].x, reply[t].y>>
            /\ ~reply[t].ok => <<ret[t].x, ret[t].y>> = <<0, 0>>

\* An AbsolutePosition call has returned (0,0) after a failed reply.
C8_Witness ==
    \E t \in Threads :
        /\ Returned(t, "AbsolutePosition")
        /\ ~reply[t].ok
        /\ <<ret[t].x, ret[t].y>> = <<0, 0>>

\* C9: SetCursor returns nil; for a cursor the cache does not hold it issues
\* nothing, for one it holds it issues one ChangeWindowAttributes on the window
\* with the cached handle as the cursor.
C9_SetCursorCacheMiss ==
    \A t \in Threads :
        Returned(t, "SetCursor") =>
            /\ ret[t] = RetNil
            /\ IF arg[t] \in DOMAIN cursorCache
                 THEN /\ Len(issued[t]) = 1
                      /\ issued[t][1].kind = "ChangeWindowAttributes"
                      /\ issued[t][1].hs = {"xw"}
                      /\ issued[t][1].data.mask = "CwCursor"
                      /\ issued[t][1].data.values = <<cursorCache[arg[t]]>>
                 ELSE issued[t] = <<>>

\* A SetCursor call for a cursor the cache does not hold has returned.
C9_Witness ==
    \E t \in Threads :
        /\ Returned(t, "SetCursor")
        /\ arg[t] \notin DOMAIN cursorCache
        /\ issued[t] = <<>>
        /\ ret[t] = RetNil

\* C10: a Publish call issues one Sync and nothing else, and when it has
\* returned the Sync has been answered and every request that was on the
\* connection when the call started has been processed.
C10_PublishSyncs ==
    \A t \in Threads :
        /\ op[t] = "Publish" => IsPrefix(Kinds(issued[t]), <<"Sync">>)
        /\ Returned(t, "Publish") =>
              /\ Kinds(issued[t]) = <<"Sync">>
              /\ Answered(t)
              /\ pend[t].left = 0
              /\ \A i \in 1..Len(wire) : wire[i] # issued[t][1]

\* A Publish call that started with a request waiting on the connection has
\* returned.
C10_Witness ==
    \E t \in Threads :
        /\ Returned(t, "Publish")
        /\ pend[t].start > 0
        /\ pend[t].left = 0


\* C11: Raise returns nil when the server accepted its SendEvent and an error
\* when the server rejected it.
C11_RaiseReportsSend ==
    \A t \in Threads :
        Returned(t, "Raise") =>
            /\ answers[t][1].ok => ret[t] = RetNil
            /\ ~answers[t][1].ok => ret[t] = RetErr

\* A Raise call whose SendEvent the server rejected has returned nil.
C11_Witness ==
    \E t \in Threads :
        /\ Returned(t, "Raise")
        /\ ~answers[t][1].ok
        /\ ret[t] = RetNil

\* The drawing and window operations of the claim (Draw stands for Copy and
\* Scale as well).
GuardedOps ==
    {"Upload", "Fill", "DrawUniform", "Draw", "SetTitle", "SetCursor",
     "WarpMouse", "Raise", "AbsolutePosition"}

\* The call of goroutine t started after a Release call had issued the frees
\* of all three handles.
AfterRelease(t) == op[t] \in GuardedOps /\ pend[t].rel

\* The call of goroutine t has issued a request that names a handle of the window.
NamesHandle(t) == \E i \in 1..Len(issued[t]) : issued[t][i].hs \cap Handles # {}

\* C12: a drawing or window operation called after Release has completed
\* issues no request that names a freed handle, or returns an error.
C12_PostReleaseGuarded ==
    \A t \in Threads :
        AfterRelease(t) /\ pc[t] = "done" =>
            \/ ~NamesHandle(t)
            \/ ret[t] = RetErr

\* A Fill call made after Release has completed has issued a FillRectangles
\* that names the freed picture, and has returned nothing to its caller.
C12_Witness ==
    \E t \in Threads :
        /\ Returned(t, "Fill")
        /\ pend[t].rel
        /\ Kinds(issued[t]) = <<"FillRectangles">>
        /\ issued[t][1].hs = {"xp"}
        /\ ret[t] = RetVoid


\* SetTitle and WarpMouse: the operations that hand the outcome of a checked
\* request back to their caller.
CheckedOps == {"SetTitle", "WarpMouse"}

\* One of the answers the call of goroutine t has had is an error.
Failed(t) == \E i \in 1..Len(answers[t]) : ~answers[t][i].ok

\* The call of goroutine t is a checked operation that failed and has returned.
FailedReturn(t) == op[t] \in CheckedOps /\ pc[t] = "done" /\ Failed(t)

\* What a failed operation must leave alone.
WindowState == <<queue, width, height, lcVisible, lcStage, released>>

\* C13: a step of SetTitle or WarpMouse, and the server's answer to one, leave
\* the queue, the stored size, the lifecycle state and the released flag
\* unchanged; the call returns the error when an answer is one; and an expose
\* or key notification handled after the failed call has returned still
\* enqueues its one event.
C13_FailedCheckedOpFrame ==
    [][/\ \A t \in Threads :
             /\ op'[t] \in CheckedOps /\ pc'[t] # pc[t] => UNCHANGED WindowState
             /\ op[t] \in CheckedOps /\ answers'[t] # answers[t] => UNCHANGED WindowState
             /\ FailedReturn(t)' => ret'[t] = RetErr
       /\ /\ \E t \in Threads : FailedReturn(t)
          /\ nnotif' = nnotif + 1
          /\ notif'.kind \in {"expose", "key"}
          => /\ Len(queue') = Len(queue) + 1
             /\ Len(produced') = Len(produced) + 1
             /\ queue'[Len(queue')] = produced'[Len(produced')].e]_vars

\* A SetTitle call has failed and returned the error, and the event of a
\* notification is in the queue.
C13_Witness ==
    /\ \E t \in Threads : FailedReturn(t) /\ op[t] = "SetTitle" /\ ret[t] = RetErr
    /\ nnotif > 0
    /\ queue # <<>>


\* C14: released never goes back to false, no free request is issued and no
\* handle is freed while it is false, and it is true in every state in which a
\* free request has been issued or a handle freed.
C14_ReleasedGatesFrees ==
    [][/\ released => released'
       /\ freeReqs' # freeReqs => released
       /\ freed' # freed => released
       /\ freeReqs' # <<>> \/ freed' # {} => released']_vars

\* A second Release call has set the flag again, when it was true already and
\* the first call had begun to free the handles.
C14_Witness ==
    /\ released
    /\ freeReqs # <<>>
    /\ \E t \in Threads : pc[t] = "Release_Unlock" /\ relLocal[t]

\* The requests of a WarpMouse call on the focused window, in the order of issue.
WarpOrder == <<"GetInputFocus", "TranslateCoordinates", "WarpPointer">>

\* C15: WarpMouse issues its TranslateCoordinates only after a good focus reply
\* that names this window and its WarpPointer only after a good translation
\* reply as well, one of each at most; the WarpPointer goes to the root window
\* with the coordinates of the translation reply; and the call returns the
\* error of the focus reply, else (focused) that of the translation reply, else
\* the check result of its one WarpPointer.
C15_WarpMouseErrorPaths ==
    \A t \in Threads :
        op[t] = "WarpMouse" =>
            LET rs == issued[t]
                as == answers[t]
            IN /\ IsPrefix(Kinds(rs), WarpOrder)
               /\ Len(rs) >= 2 => as[1].ok /\ as[1].focus = "xw"
               /\ Len(rs) = 3 =>
                     /\ as[2].ok
                     /\ rs[3].hs = {"root"}
                     /\ rs[3].data.dst = "root"
                     /\ <<rs[3].data.x, rs[3].data.y>> = <<as[2].x, as[2].y>>
               /\ pc[t] = "done" =>
                     IF ~as[1].ok THEN ret[t] = RetErr /\ Len(rs) = 1
                     ELSE IF as[1].focus # "xw" THEN Len(rs) = 1
                     ELSE IF ~as[2].ok THEN ret[t] = RetErr /\ Len(rs) = 2
                     ELSE /\ Len(rs) = 3
                          /\ Len(as) = 3
                          /\ ret[t] = IF as[3].ok THEN RetNil ELSE RetErr

\* A WarpMouse call on the focused window has returned the error of its
\* coordinate translation, and issued no WarpPointer.
C15_Witness ==
    \E t \in Threads :
        /\ Returned(t, "WarpMouse")
        /\ Len(answers[t]) = 2
        /\ answers[t][1].ok /\ answers[t][1].focus = "xw"
        /\ ~answers[t][2].ok
        /\ ret[t] = RetErr
        /\ Kinds(issued[t]) = <<"GetInputFocus", "TranslateCoordinates">>

\* C16: Raise issues one SendEvent to the root window (format 32, this window,
\* the active-window atom, data 0, TimeCurrentTime, 0, 0, 0) and then one
\* MapWindow of this window; the MapWindow is issued once the SendEvent has been
\* answered, whatever the answer; a call that has returned has issued both.
C16_RaiseSendThenMap ==
    \A t \in Threads :
        op[t] = "Raise" =>
            LET rs == issued[t]
            IN /\ IsPrefix(Kinds(rs), <<"SendEvent", "MapWindow">>)
               /\ Len(rs) >= 1 =>
                     /\ rs[1].hs = {"root"}
                     /\ rs[1].data = [Format |-> 32, Window |-> "xw",
                                      Type |-> "atomNetActiveWindow",
                                      Data |-> <<0, TimeCurrentTime, 0, 0, 0>>]
               /\ Len(rs) = 2 =>
                     /\ rs[2].hs = {"xw"}
                     /\ Len(answers[t]) >= 1
                     /\ \A i \in 1..Len(wire) : wire[i] # rs[1]
               /\ Len(answers[t]) >= 1 /\ pc[t] # "Raise_SendCheck" => Len(rs) = 2
               /\ pc[t] = "done" => Len(rs) = 2 /\ Len(answers[t]) = 2

\* A Raise call whose SendEvent the server rejected has gone on to map the
\* window, and the server has mapped it.
C16_Witness ==
    \E t \in Threads :
        /\ Returned(t, "Raise")
        /\ ~answers[t][1].ok
        /\ issued[t][2].kind = "MapWindow"
        /\ answers[t][2].ok


\* The step belongs to a Release call of goroutine t.
ReleaseStep(t) == op'[t] = "Release" /\ pc'[t] # pc[t]

\* C17: a step of Release changes neither the lifecycle state (visibility and
\* stage) nor the queue nor the stored width and height, and makes no call to
\* the lifecycler or to the queue.
C17_ReleaseFrame ==
    [][(\E t \in Threads : ReleaseStep(t)) =>
           UNCHANGED <<lcVisible, lcStage, queue, produced, consumed, calls,
                       width, height, pixelsPerPt>>]_vars

\* Release has issued its three frees and returned on a window that a configure
\* notification made visible: the stage is still visible, the stored size is
\* the notification's and the queue holds the events sent for it.
C17_Witness ==
    /\ \E t \in Threads : Returned(t, "Release") /\ ~relLocal[t]
    /\ released
    /\ freeReqs = FreeOrder
    /\ lcVisible
    /\ lcStage = "StageVisible"
    /\ width # 0
    /\ consumed = <<>>
    /\ Len(queue) = 2

\* n is a value of an unsigned 16-bit field.
IsUint16(n) == n \in 0..65535

\* C18: after a configure notification of signed 16-bit X, Y and unsigned 16-bit
\* Width, Height, the boolean the handler gave to SetVisible, and the
\* lifecycler's visibility, is (X + Width > 0 and Y + Height > 0) with the sums
\* taken in the integers.
C18_VisibleNoWrap ==
    notif.kind = "configure" =>
        LET v == (notif.X + notif.Width > 0) /\ (notif.Y + notif.Height > 0)
        IN /\ notif.X = Int16(notif.X) /\ notif.Y = Int16(notif.Y)
           /\ IsUint16(notif.Width) /\ IsUint16(notif.Height)
           /\ SelectSeq(calls, LAMBDA c : c.c = "SetVisible") = <<Call("SetVisible", v)>>
           /\ lcVisible = v

\* A configure notification whose X + Width is positive and would be negative in
\* 16 bits made the window visible.
C18_Witness ==
    /\ notif.kind = "configure"
    /\ notif.X + notif.Width > 0
    /\ Int16(notif.X + notif.Width) < 0
    /\ notif.Y + notif.Height > 0
    /\ lcVisible
    /\ lcStage = "StageVisible"

\* The size events sent so far, oldest first.
SizesSent == SelectSeq(Events(produced), IsSize)

\* C19: the stored (width, height) starts at (0, 0); handling a configure
\* notification leaves it equal to the notification's Width and Height; no
\* other step (expose, key, mouse, queue consumer, any call, the server)
\* changes it; and it equals the size of the last size event sent, if any.
C19_StoredSize ==
    /\ <<width, height>> = <<0, 0>>
    /\ [][/\ Handling("configure") => <<width', height'>> = <<notif'.Width, notif'.Height>>
          /\ ~Handling("configure") => UNCHANGED <<width, height>>
          /\ SizesSent' # <<>> =>
                LET last == SizesSent'[Len(SizesSent')]
                IN <<last.WidthPx, last.HeightPx>> = <<width', height'>>]_vars

\* Two configure notifications of different sizes were handled: the stored
\* pair is the second one's, as is the size of the last of the two size events.
C19_Witness ==
    /\ nnotif = 2
    /\ notif.kind = "configure"
    /\ Len(SizesSent) = 2
    /\ SizesSent[1].WidthPx # SizesSent[2].WidthPx
    /\ <<width, height>> = <<notif.Width, notif.Height>>
    /\ <<width, height>> = <<SizesSent[2].WidthPx, SizesSent[2].HeightPx>>

\* C20 as stated: whenever a Release call has returned, the three frees have
\* been issued.
C20_ReturnedImpliesFreed ==
    \A t \in Threads : Returned(t, "Release") => freeReqs = FreeOrder

\* C20: a Release call that read released = false has issued the three frees,
\* in order, when it returns; a call that read true returns having issued
\* nothing, with the flag set and some call having read false before it.
C20_FreeingCallReturnsFreed ==
    \A t \in Threads :
        Returned(t, "Release") =>
            IF relLocal[t]
              THEN issued[t] = <<>> /\ released /\ nObsFalse = 1
              ELSE freeReqs = FreeOrder /\ Kinds(issued[t]) = FreeOrder

\* A call that read released = true has returned while the call that frees the
\* handles has yet to issue its last free.
C20_Witness ==
    \E t, u \in Threads :
        /\ Returned(t, "Release") /\ relLocal[t]
        /\ op[u] = "Release" /\ ~relLocal[u]
        /\ pc[u] \in {"Release_Check", "Release_FreePicture", "Release_FreeGC", "Release_DestroyWindow"}
        /\ freeReqs # FreeOrder
====
